---- MODULE Spec2Model ----
(***************************************************************************)
(* The limo-api repository holds six drafts of one booking-quote server.   *)
(*   "A"  : src/server.js lines 1-200     (fetch with abort timer)         *)
(*   "B"  : src/server.js lines 202-357   (requireApiKey, flat surcharges) *)
(*   "P0" : src/unnamed/part_000          (auth middleware, calcTotal)     *)
(*   "P1" : src/unnamed/part_001 44-261   (12h distance cache, surcharges) *)
(*   "P2" : src/unnamed/part_002          (getDistanceDurationKm)          *)
(*   "P3" : src/unnamed/part_003          (getClientKey, calculatePrice)   *)
(* One behaviour runs one draft (variant) under one configuration.         *)
(*                                                                         *)
(* Representation.                                                         *)
(*   - a JS string is a sequence of one-character strings;                 *)
(*   - an optional value (undefined / null / absent object) is <<>> and a  *)
(*     present value v is <<v>>;                                           *)
(*   - distances are kept in metres (km * 1000), money before rounding in  *)
(*     units of 1/DollarU dollar, money after rounding in cents; all the   *)
(*     arithmetic is exact (rationals), not IEEE double.                   *)
(***************************************************************************)
EXTENDS Integers, Sequences, FiniteSets, TLC

VARIABLES
    variant,    \* which draft of the server runs
    window,     \* P1: the after-hours window <<start, end>>, in minutes of the day
    mapsKey,    \* GOOGLE_MAPS_KEY configured (truthy) or not
    serverKey,  \* LMS_API_KEY after (env || '').trim()
    now,        \* Date.now(), in ms since the process started
    cache,      \* P1: _cache, a Map from key to {t, data}
    reqs,       \* per connection: the request whose handler is suspended at await
    lastResp,   \* the response being written in this turn of the event loop, or NoResp
    okAt,       \* history: per normalized pair, when a provider result last succeeded
    mock,       \* the mocked provider of the idempotence test, or NoMock
    probe       \* history: one earlier quote response, remembered for comparison

vars == <<variant, window, mapsKey, serverKey, now, cache, reqs, lastResp, okAt, mock,
          probe>>

----------------------------------------------------------------------------
(* Optional values and strings *)

None == <<>>
Some(v) == <<v>>
IsSome(o) == o # <<>>
Get(o) == o[1]

\* String.prototype.toLowerCase on the letters the model's strings use
LowerChar(c) ==
    CASE c = "A" -> "a" [] c = "B" -> "b" [] c = "C" -> "c"
      [] c = "S" -> "s" [] OTHER -> c

ToLowerCase(s) == [i \in 1..Len(s) |-> LowerChar(s[i])]

\* String.prototype.includes
Includes(s, sub) ==
    \E i \in 0..(Len(s) - Len(sub)) : SubSeq(s, i + 1, i + Len(sub)) = sub

\* String.prototype.trim (spaces)
RECURSIVE TrimLeft(_)
TrimLeft(s) == IF s # <<>> /\ Head(s) = " " THEN TrimLeft(Tail(s)) ELSE s

RECURSIVE TrimRight(_)
TrimRight(s) ==
    IF s # <<>> /\ s[Len(s)] = " " THEN TrimRight(SubSeq(s, 1, Len(s) - 1)) ELSE s

Trim(s) == TrimRight(TrimLeft(s))

\* !x for an optional string: undefined and '' are falsy
TruthyStr(o) == IsSome(o) /\ Get(o) # <<>>

\* !x for an optional number: undefined and 0 are falsy
TruthyNum(o) == IsSome(o) /\ Get(o) # 0

\* Math.round(n / d) for d > 0: round half up
RoundDiv(n, d) == (2 * n + d) \div (2 * d)

Abs(n) == IF n < 0 THEN -n ELSE n
Max(a, b) == IF a >= b THEN a ELSE b
Min(a, b) == IF a <= b THEN a ELSE b

----------------------------------------------------------------------------
(* Money *)

CentU == 3 * 1000           \* fine units per cent
DollarU == 100 * CentU      \* fine units per dollar

\* Math.round(x * 100) / 100, x in fine units, result in cents
Round2(x) == RoundDiv(x, CentU)

----------------------------------------------------------------------------
(* Pricing coefficients (the same defaults in every draft) *)

PRICE_BASE == 65            \* dollars
PRICE_PER_KM_X10 == 22      \* 2.2 dollars per km, in tenths
PRICE_PER_MIN_X10 == 8      \* P1: 0.8 dollars per minute, in tenths
PRICE_PER_PAX == 5          \* dollars
PRICE_PER_BAG == 2          \* dollars
AFTER_HOURS_RATE_PCT == 10  \* P1: 0.10
AIRPORT_SURCHARGE == 0      \* P1: dollars

\* perKm * km, km given in metres, in fine units
KmCost(meters) == PRICE_PER_KM_X10 * meters * (DollarU \div 10000)

\* perMin * mins, mins given in seconds, in fine units
MinCost(secs) == PRICE_PER_MIN_X10 * secs * (DollarU \div 600)

----------------------------------------------------------------------------
(* The provider's answer to one Distance Matrix call.                      *)
(*   kind "reject": fetch rejects (network error);                         *)
(*   kind "resp"  : an HTTP response with a JSON body                      *)
(*        httpOk : resp.ok            status : data.status                 *)
(*        el     : data.rows[0].elements[0], <<>> when absent              *)
(*   an element's distance, duration and duration_in_traffic are JSON      *)
(*   objects: <<>> absent, <<<<>>>> present without value, <<<<v>>>>.      *)

Obj(v) == Some(Some(v))
NoValue == Some(None)

\* x?.value
Val(x) == IF x = None THEN None ELSE Get(x)

Element(st, dist, dur, traffic) ==
    [status |-> st, distance |-> dist, duration |-> dur, traffic |-> traffic]

Reject == [kind |-> "reject", httpOk |-> FALSE, status |-> "", el |-> None]

Response(ok, st, el) == [kind |-> "resp", httpOk |-> ok, status |-> st, el |-> el]

Http500     == Response(FALSE, "UNKNOWN_ERROR", None)
Denied      == Response(TRUE, "REQUEST_DENIED", None)
NotFound    == Response(TRUE, "OK", Some(Element("NOT_FOUND", None, None, None)))
Route       == Response(TRUE, "OK", Some(Element("OK", Obj(16002), Obj(1201), None)))
Detour      == Response(TRUE, "OK", Some(Element("OK", Obj(9000), Obj(900), None)))
SamePlace   == Response(TRUE, "OK", Some(Element("OK", Obj(0), Obj(0), None)))
NoDuration  == Response(TRUE, "OK", Some(Element("OK", Obj(9000), None, None)))
NoDistance  == Response(TRUE, "OK", Some(Element("OK", None, Obj(600), None)))
NoDistValue == Response(TRUE, "OK", Some(Element("OK", NoValue, Obj(600), None)))

\* an element with a duration in current traffic beside the static one
RouteJam    == Response(TRUE, "OK", Some(Element("OK", Obj(16002), Obj(1201), Obj(1500))))
\* an element with a duration in current traffic only
JamOnly     == Response(TRUE, "OK", Some(Element("OK", Obj(9000), None, Obj(1500))))

Failures == {Reject, Http500, Denied, NotFound}
Outcomes == Failures \cup {Route, SamePlace, NoDuration, NoDistance, NoDistValue}

\* the element is there and its status is OK
ElementOK(o) == IsSome(o.el) /\ Get(o.el).status = "OK"

----------------------------------------------------------------------------
(* Fallback estimates *)

\* A, P1, P2: Math.max(5, Math.min(45, Math.abs(len(pickup) - len(dropoff)) + 10)), km
roughEstimate(pickup, dropoff) ==
    Max(5, Min(45, Abs(Len(pickup) - Len(dropoff)) + 10))

strBrisbaneAirport == <<"b","r","i","s","b","a","n","e"," ","a","i","r","p","o","r","t">>
strSouthBank == <<"s","o","u","t","h"," ","b","a","n","k">>

\* P0: roughDistance(pickup, dropoff).distanceKm
roughDistance(pickup, dropoff) ==
    IF /\ Includes(ToLowerCase(pickup), strBrisbaneAirport)
       /\ Includes(ToLowerCase(dropoff), strSouthBank)
    THEN 16 ELSE 12

\* P3: roughDistanceKm(pickup, dropoff)
roughDistanceKm(pickup, dropoff) ==
    LET key == Trim(ToLowerCase(pickup \o <<" ","-",">"," ">> \o dropoff))
    IN  IF key = strBrisbaneAirport \o <<" ","-",">"," ">> \o strSouthBank
        THEN 16 ELSE 12

----------------------------------------------------------------------------
(* What each draft makes of the provider's answer.  The result is          *)
(*   [tag |-> "ok", km |-> metres or <<>> for NaN, min |-> minutes or <<>>]*)
(* or NoDist (null / ok:false / throw: the caller falls back).             *)

NoDist == [tag |-> "none", km |-> None, min |-> None]
Dist(km, min) == [tag |-> "ok", km |-> km, min |-> min]

\* A: fetchJsonWithTimeout, then getDistanceKmAndMinutes from line 77 on.
\* A missing el.distance makes line 83 throw; the handler's catch swallows it.
getDistanceKmAndMinutes(o) ==
    IF o.kind = "reject" \/ ~o.httpOk \/ o.status # "OK" THEN NoDist
    ELSE IF ~ElementOK(o) THEN NoDist
    ELSE LET el == Get(o.el)
             secs == IF IsSome(Val(el.traffic)) THEN Val(el.traffic) ELSE Val(el.duration)
         IN  IF el.distance = None THEN NoDist
             ELSE Dist(Val(el.distance),
                       Some(RoundDiv(IF TruthyNum(secs) THEN Get(secs) ELSE 0, 60)))

\* B: getDistanceKm inside its try, from line 276 on
getDistanceKm(o) ==
    IF o.kind = "reject" THEN NoDist
    ELSE LET meters == IF IsSome(o.el) THEN Val(Get(o.el).distance) ELSE None
             durationSec == IF IsSome(o.el) THEN Val(Get(o.el).duration) ELSE None
         IN  IF TruthyNum(meters) /\ Get(meters) > 0
             THEN Dist(meters,
                       IF TruthyNum(durationSec)
                       THEN Some(RoundDiv(Get(durationSec), 60)) ELSE None)
             ELSE NoDist

\* P0: getDistanceViaGoogle from line 119 on
getDistanceViaGoogle(o) ==
    IF o.kind = "reject" \/ ~o.httpOk THEN NoDist
    ELSE IF ~ElementOK(o) THEN NoDist
    ELSE LET el == Get(o.el)
             meters == IF IsSome(Val(el.distance)) THEN Get(Val(el.distance)) ELSE 0
             seconds == IF IsSome(Val(el.traffic)) THEN Get(Val(el.traffic))
                        ELSE IF IsSome(Val(el.duration)) THEN Get(Val(el.duration))
                        ELSE 0
         IN  Dist(Some(meters),
                  IF seconds # 0 THEN Some(RoundDiv(seconds, 60)) ELSE None)

\* P2: getDistanceDurationKm from line 68 on
getDistanceDurationKm(o) ==
    IF o.kind = "reject" \/ ~o.httpOk THEN NoDist
    ELSE IF o.status # "OK" THEN NoDist
    ELSE IF ~ElementOK(o) THEN NoDist
    ELSE LET el == Get(o.el)
             meters == IF TruthyNum(Val(el.distance)) THEN Get(Val(el.distance)) ELSE 0
             seconds == IF TruthyNum(Val(el.duration)) THEN Get(Val(el.duration)) ELSE 0
         IN  IF meters = 0 \/ seconds = 0 THEN NoDist
             ELSE Dist(Some(meters), Some(RoundDiv(seconds, 60)))

\* P3: getGoogleDistance from line 131 on
getGoogleDistance(o) ==
    IF o.kind = "reject" \/ ~o.httpOk THEN NoDist
    ELSE IF o.status # "OK" \/ ~ElementOK(o) THEN NoDist
    ELSE LET el == Get(o.el)
             distanceMeters == Val(el.distance)
             durationSeconds == Val(el.duration)
         IN  IF distanceMeters = None THEN NoDist
             ELSE Dist(distanceMeters,
                       IF IsSome(durationSeconds)
                       THEN Some(RoundDiv(Get(durationSeconds), 60)) ELSE None)

\* P1: lines 153-166; the result keeps minutes as seconds / 60, so in seconds
matrixResult(o) ==
    IF o.kind = "reject" THEN NoDist
    ELSE IF o.httpOk /\ ElementOK(o)
    THEN LET el == Get(o.el)
             meters == IF TruthyNum(Val(el.distance)) THEN Get(Val(el.distance)) ELSE 0
             dur == IF IsSome(el.traffic) THEN el.traffic ELSE el.duration
             seconds == IF TruthyNum(Val(dur)) THEN Get(Val(dur)) ELSE 0
         IN  Dist(Some(meters), Some(seconds))
    ELSE NoDist

----------------------------------------------------------------------------
(* Requests.  hdr holds the key as the client may send it: the LMS_API_KEY *)
(* header, the LMS-Api-Key header, the X-Api-Key header, the ?key= query.  *)
(* body is <<>> when the request carries none.  A `when` string is <<>>    *)
(* for '', <<h, m>> for an ISO local time "2025-10-15Thh:mm", and <<0>>    *)
(* for text that Date cannot parse.                                        *)

Hdr(lms, dash, xapi, query) == [lms |-> lms, dash |-> dash, xapi |-> xapi, query |-> query]

Body(pickup, dropoff, when, pax, luggage) ==
    [pickup |-> pickup, dropoff |-> dropoff, when |-> when, pax |-> pax, luggage |-> luggage]

\* req.body || {}
BodyOf(rq) == IF IsSome(rq.body) THEN Get(rq.body) ELSE Body(None, None, None, None, None)

----------------------------------------------------------------------------
(* API-key checks: "next", or the status of the refusal *)

\* requireApiKey without the comparison: any key that was sent is let through
requireApiKey_AnyKey(hdr) ==
    LET provided == Trim(IF TruthyStr(hdr.lms) THEN Get(hdr.lms) ELSE <<>>)
    IN  IF serverKey = <<>> THEN "next"
        ELSE IF provided # <<>> THEN "next"
        ELSE "401"

\* B: requireApiKey (one header, whatever its letter case) on a server
\* whose SERVICE_API_KEY is secret
requireApiKeyOf(secret, hdr) ==
    LET provided == Trim(IF TruthyStr(hdr.lms) THEN Get(hdr.lms) ELSE <<>>)
    IN  IF secret = <<>> THEN "next"
        ELSE IF provided # <<>> /\ provided = secret THEN "next"
        ELSE "401"

requireApiKey(hdr) == requireApiKeyOf(serverKey, hdr)

\* P0: req.get('LMS_API_KEY') ?? req.get('lms-api-key') ?? ''
clientKeyP0(hdr) ==
    IF IsSome(hdr.lms) THEN Get(hdr.lms)
    ELSE IF IsSome(hdr.dash) THEN Get(hdr.dash) ELSE <<>>

\* P0: the middleware after AUTH_WHITELIST on a server whose SERVER_KEY_RAW
\* is secret
authMiddlewareOf(secret, hdr) ==
    LET clientKey == clientKeyP0(hdr)
        valid == secret # <<>> /\ clientKey # <<>> /\ secret = Trim(clientKey)
    IN  IF valid THEN "next" ELSE "401"

authMiddleware(hdr) == authMiddlewareOf(serverKey, hdr)

\* P3: getClientKey
getClientKey(hdr) ==
    Trim(IF TruthyStr(hdr.lms) THEN Get(hdr.lms)
         ELSE IF TruthyStr(hdr.dash) THEN Get(hdr.dash)
         ELSE IF TruthyStr(hdr.xapi) THEN Get(hdr.xapi)
         ELSE IF TruthyStr(hdr.query) THEN Get(hdr.query)
         ELSE <<>>)

\* P3: the middleware after OPEN_PATHS on a server whose SERVER_KEY is secret
openPathsMiddlewareOf(secret, hdr) ==
    IF secret = <<>> THEN "500"
    ELSE IF getClientKey(hdr) # secret THEN "401"
    ELSE "next"

openPathsMiddleware(hdr) == openPathsMiddlewareOf(serverKey, hdr)

\* what stands between the request and the quote handler
Auth(v, hdr) ==
    CASE v = "B"  -> requireApiKey(hdr)
      [] v = "P0" -> authMiddleware(hdr)
      [] v = "P3" -> openPathsMiddleware(hdr)
      [] OTHER    -> "next"

\* the same on a server whose secret is secret
AuthOf(v, secret, hdr) ==
    CASE v = "B"  -> requireApiKeyOf(secret, hdr)
      [] v = "P0" -> authMiddlewareOf(secret, hdr)
      [] v = "P3" -> openPathsMiddlewareOf(secret, hdr)
      [] OTHER    -> "next"

AuthError(st) == IF st = "500" THEN "Server key not configured" ELSE "Unauthorized"

----------------------------------------------------------------------------
(* Validation of the quote body: the error message, or "" when it passes *)

ValidationError(v, b) ==
    IF v \in {"B", "P3"}
    THEN IF ~TruthyStr(b.pickup) \/ ~TruthyStr(b.dropoff)
         THEN "pickup and dropoff are required" ELSE ""
    ELSE IF ~TruthyStr(b.pickup) \/ ~TruthyStr(b.dropoff) \/ ~TruthyStr(b.when)
         THEN IF v = "P0" THEN "Missing pickup/dropoff/when"
              ELSE "pickup, dropoff, and when are required"
         ELSE ""

----------------------------------------------------------------------------
(* The resolved distance a quote is priced from.                           *)
(*   km : metres   min : minutes or <<>> (P1: seconds, always there)       *)
(*   rough : the km is the fallback estimate                               *)

Resolved(km, min, source, rough) == [km |-> km, min |-> min, source |-> source, rough |-> rough]

\* A lines 110-131: a NaN km is replaced by the estimate, the label is kept
resolveA(p, q, d) ==
    IF d.tag = "ok"
    THEN IF IsSome(d.km) THEN Resolved(Get(d.km), d.min, "google", FALSE)
         ELSE Resolved(1000 * roughEstimate(p, q), d.min, "google", TRUE)
    ELSE Resolved(1000 * roughEstimate(p, q), None, "rough", TRUE)

\* B lines 283-295
resolveB(p, q, d) ==
    IF d.tag = "ok" THEN Resolved(Get(d.km), d.min, "google", FALSE)
    ELSE Resolved(1000 * 16, None, "rough", TRUE)

\* P0 lines 156-176
resolveP0(p, q, d) ==
    IF d.tag = "ok" THEN Resolved(Get(d.km), d.min, "google", FALSE)
    ELSE Resolved(1000 * roughDistance(p, q), None, "rough", TRUE)

\* P1 lines 156-175
resolveP1(p, q, d) ==
    IF d.tag = "ok" THEN Resolved(Get(d.km), Get(d.min), "google", FALSE)
    ELSE Resolved(1000 * roughEstimate(p, q), 60 * (roughEstimate(p, q) * 2),
                  "fallback", TRUE)

\* P2 lines 114-132
resolveP2(p, q, d) ==
    IF d.tag = "ok" THEN Resolved(Get(d.km), d.min, "google", FALSE)
    ELSE Resolved(1000 * roughEstimate(p, q), None, "rough", TRUE)

\* P3 lines 185-196
resolveP3(p, q, d) ==
    IF d.tag = "ok" THEN Resolved(Get(d.km), d.min, "google", FALSE)
    ELSE Resolved(1000 * roughDistanceKm(p, q), None, "rough", TRUE)

\* the handler's use of the helper's result d, per draft
Resolve(v, b, d) ==
    LET p == Get(b.pickup)
        q == Get(b.dropoff)
    IN  CASE v = "A"  -> resolveA(p, q, d)
          [] v = "B"  -> resolveB(p, q, d)
          [] v = "P0" -> resolveP0(p, q, d)
          [] v = "P1" -> resolveP1(p, q, d)
          [] v = "P2" -> resolveP2(p, q, d)
          [] v = "P3" -> resolveP3(p, q, d)

\* the helper each draft applies to the provider's answer
Helper(v, o) ==
    CASE v = "A"  -> getDistanceKmAndMinutes(o)
      [] v = "B"  -> getDistanceKm(o)
      [] v = "P0" -> getDistanceViaGoogle(o)
      [] v = "P1" -> matrixResult(o)
      [] v = "P2" -> getDistanceDurationKm(o)
      [] v = "P3" -> getGoogleDistance(o)

----------------------------------------------------------------------------
(* Pricing.  total in cents; in a breakdown base, perPax, perBag are       *)
(* dollars, perKm is in tenths of a dollar, distanceKm is in metres.       *)

Breakdown(km, source, perPax, perBag, durationMin) ==
    [base |-> PRICE_BASE, perKm |-> PRICE_PER_KM_X10, distanceKm |-> km,
     distanceSource |-> source, perPax |-> perPax, perBag |-> perBag,
     durationMin |-> durationMin]

\* Number(x || dflt)
NumberOr(x, dflt) == IF TruthyNum(x) THEN Get(x) ELSE dflt

\* A lines 103-155
quoteA(b, r) ==
    LET perPax == PRICE_PER_PAX * (NumberOr(b.pax, 1) - 1)
        perBag == PRICE_PER_BAG * NumberOr(b.luggage, 0)
    IN  [total |-> Round2(DollarU * (PRICE_BASE + perPax + perBag) + KmCost(r.km)),
         breakdown |-> Breakdown(r.km, r.source, perPax, perBag, r.min),
         pax |-> Some(NumberOr(b.pax, 1)), luggage |-> Some(NumberOr(b.luggage, 0))]

\* P2 lines 134-162
quoteP2(b, r) ==
    LET perPax == PRICE_PER_PAX * (NumberOr(b.pax, 1) - 1)
        perBag == PRICE_PER_BAG * NumberOr(b.luggage, 0)
    IN  [total |-> Round2(DollarU * (PRICE_BASE + perPax + perBag) + KmCost(r.km)),
         breakdown |-> Breakdown(r.km, r.source, perPax, perBag, r.min),
         pax |-> Some(NumberOr(b.pax, 1)), luggage |-> Some(NumberOr(b.luggage, 0))]

\* B lines 307-344
quoteB(b, r) ==
    LET paxNum == IF IsSome(b.pax) THEN Get(b.pax) ELSE 1
        bagNum == IF IsSome(b.luggage) THEN Get(b.luggage) ELSE 0
        paxSurcharge == IF paxNum > 1 THEN PRICE_PER_PAX ELSE 0
        bagSurcharge == IF bagNum > 0 THEN PRICE_PER_BAG ELSE 0
    IN  [total |-> Round2(DollarU * (PRICE_BASE + paxSurcharge + bagSurcharge)
                          + KmCost(r.km)),
         breakdown |-> Breakdown(r.km, r.source, PRICE_PER_PAX, PRICE_PER_BAG, r.min),
         pax |-> Some(paxNum), luggage |-> Some(bagNum)]

\* P0: calcTotal and lines 178-193
calcTotal(b, r) ==
    LET bags == NumberOr(b.luggage, 0)
    IN  [total |-> Round2(DollarU * (PRICE_BASE + PRICE_PER_PAX + PRICE_PER_BAG * bags)
                          + KmCost(r.km)),
         breakdown |-> Breakdown(r.km, r.source, PRICE_PER_PAX, PRICE_PER_BAG, r.min),
         pax |-> Some(NumberOr(b.pax, 0)), luggage |-> Some(NumberOr(b.luggage, 0))]

\* P3: calculatePrice and lines 198-214
calculatePrice(b, r) ==
    [total |-> Round2(DollarU * (PRICE_BASE + PRICE_PER_PAX * NumberOr(b.pax, 0)
                                 + PRICE_PER_BAG * NumberOr(b.luggage, 0))
                      + KmCost(r.km)),
     breakdown |-> Breakdown(r.km, r.source, PRICE_PER_PAX, PRICE_PER_BAG, r.min),
     pax |-> b.pax, luggage |-> b.luggage]

AFTER_HOURS_START_H == 22
AFTER_HOURS_END_H == 5

\* SURCHARGES.afterHoursStart and afterHoursEnd as [sH*60 + sM, eH*60 + eM]:
\* the default, and what AFTER_HOURS_START / AFTER_HOURS_END may set
DefaultWindow == <<AFTER_HOURS_START_H * 60, AFTER_HOURS_END_H * 60>>
Windows == {DefaultWindow, <<23 * 60 + 30, 10 * 60 + 30>>, <<10 * 60 + 30, 23 * 60 + 30>>,
            <<10 * 60 + 30, 10 * 60 + 30>>}

\* isAfterHours with the end of the window included
isAfterHours_Inclusive(w) ==
    LET start == window[1]
        end == window[2]
    IN  IF Len(w) # 2 THEN FALSE
        ELSE LET mins == w[1] * 60 + w[2]
             IN  IF start <= end THEN mins >= start /\ mins <= end
                 ELSE mins >= start \/ mins <= end

\* P1: isAfterHours(dtISO); a text Date cannot parse gives NaN minutes
isAfterHours(w) ==
    LET start == window[1]
        end == window[2]
    IN  IF Len(w) # 2 THEN FALSE
        ELSE LET mins == w[1] * 60 + w[2]
             IN  IF start <= end THEN mins >= start /\ mins < end
                 ELSE mins >= start \/ mins < end

\* P1: looksLikeAirport(s): /airport|bne|brisbane\s*airport/i
looksLikeAirport(s) ==
    \/ Includes(ToLowerCase(s), <<"a","i","r","p","o","r","t">>)
    \/ Includes(ToLowerCase(s), <<"b","n","e">>)

\* P1 lines 178-227; r.min is in seconds; components are in cents
quoteP1(b, r) ==
    LET pPax == PRICE_PER_PAX * Max(0, NumberOr(b.pax, 1) - 1)
        pBag == PRICE_PER_BAG * Max(0, NumberOr(b.luggage, 0))
        perKmCost == KmCost(r.km)
        perMinCost == MinCost(r.min)
        subtotal0 == DollarU * (PRICE_BASE + pPax + pBag) + perKmCost + perMinCost
        after == isAfterHours(Get(b.when))
        extra == (subtotal0 * AFTER_HOURS_RATE_PCT) \div 100
        subtotal1 == IF after THEN subtotal0 + extra ELSE subtotal0
        airport == /\ AIRPORT_SURCHARGE # 0
                   /\ looksLikeAirport(Get(b.pickup)) \/ looksLikeAirport(Get(b.dropoff))
        subtotal == IF airport THEN subtotal1 + DollarU * AIRPORT_SURCHARGE ELSE subtotal1
    IN  [total |-> Round2(subtotal),
         distance_km |-> RoundDiv(r.km, 10),
         duration_min |-> RoundDiv(r.min, 60),
         source |-> r.source,
         breakdown |->
            [base |-> PRICE_BASE, perKm |-> PRICE_PER_KM_X10,
             perMin |-> PRICE_PER_MIN_X10, perPax |-> PRICE_PER_PAX,
             perBag |-> PRICE_PER_BAG,
             components |->
                [base |-> 100 * PRICE_BASE,
                 perKm |-> Round2(perKmCost),
                 perMin |-> Round2(perMinCost),
                 pPax |-> 100 * pPax,
                 pBag |-> 100 * pBag,
                 afterHours |-> IF after THEN Some(Round2(extra)) ELSE None,
                 airport |-> IF airport THEN Some(100 * AIRPORT_SURCHARGE) ELSE None]],
         pax |-> Some(NumberOr(b.pax, 1)), luggage |-> Some(NumberOr(b.luggage, 0))]

\* the quote of draft v for body b and resolved distance r
Quote(v, b, r) ==
    CASE v = "A"  -> quoteA(b, r)
      [] v = "B"  -> quoteB(b, r)
      [] v = "P0" -> calcTotal(b, r)
      [] v = "P1" -> quoteP1(b, r)
      [] v = "P2" -> quoteP2(b, r)
      [] v = "P3" -> calculatePrice(b, r)

----------------------------------------------------------------------------
(* P1: the distance cache *)

_TTL_MS == 12 * 60 * 60 * 1000

_key(a, b) == ToLowerCase(a \o <<"|","|">> \o b)

\* an expiry test that lets an entry live for two TTLs
Expired_TwoTTL(k) == now - cache[k].t > 2 * _TTL_MS

\* Date.now() - v.t > _TTL_MS
Expired(k) == now - cache[k].t > _TTL_MS

\* the value _get(a, b) returns: the cached data, or <<>> for null
_get(a, b) ==
    LET k == _key(a, b)
    IN  IF k \notin DOMAIN cache THEN None
        ELSE IF Expired(k) THEN None
        ELSE Some(cache[k].data)

\* the entry _get(a, b) deletes, or <<>> when it deletes none
_getEvicted(a, b) ==
    LET k == _key(a, b)
    IN  IF k \in DOMAIN cache /\ Expired(k) THEN Some(cache[k]) ELSE None

\* the cache _get(a, b) leaves: an expired entry is deleted
_getEffect(a, b) ==
    LET k == _key(a, b)
    IN  IF k \in DOMAIN cache /\ Expired(k)
        THEN [x \in DOMAIN cache \ {k} |-> cache[x]]
        ELSE cache

\* the entry _set stores
Entry(t, data) == [t |-> t, data |-> data]

\* the cache after _set(a, b, data), on c
_set(c, a, b, data) ==
    LET k == _key(a, b)
    IN  [x \in DOMAIN c \cup {k} |-> IF x = k THEN Entry(now, data) ELSE c[x]]

\* lines 139-143: the cached pair is used only if both km and mins are truthy
cacheUsable(cached) ==
    IsSome(cached) /\ Get(cached).km # 0 /\ Get(cached).mins # 0

----------------------------------------------------------------------------
(* The requests the model sends *)

Variants == {"A", "B", "P0", "P1", "P2", "P3"}
AuthVariants == {"B", "P0", "P3"}
Conns == {"c1"}

GoodKey == <<"k","e","y">>
WrongKey == <<"b","a","d">>

NoHdr == Hdr(None, None, None, None)
KeyHdr == Hdr(Some(GoodKey), None, None, None)
Hdrs == {NoHdr, KeyHdr,
         Hdr(Some(WrongKey), None, None, None),
         Hdr(Some(<<" ">> \o GoodKey), None, None, None),
         Hdr(Some(<<>>), None, None, None),
         Hdr(None, Some(GoodKey), None, None),
         Hdr(None, None, Some(GoodKey), None),
         Hdr(None, None, None, Some(WrongKey))}

BrisbaneAirport == <<"B","r","i","s","b","a","n","e"," ","A","i","r","p","o","r","t">>
SouthBank == <<"S","o","u","t","h"," ","B","a","n","k">>

\* pairs of pickup and dropoff
Trips == {<<BrisbaneAirport, SouthBank>>,
          <<<<"A","|","|","B">>, <<"C">>>>,
          <<<<"A">>, <<"B","|","|","C">>>>}

Day == <<10, 30>>
Night == <<23, 30>>

Trip(t, when, pax, luggage) == Body(Some(t[1]), Some(t[2]), Some(when), pax, luggage)

FirstTrip == <<BrisbaneAirport, SouthBank>>

ValidBodies ==
    {Trip(t, Day, Some(2), Some(1)) : t \in Trips}
    \cup {Trip(FirstTrip, Night, None, None),
          Trip(FirstTrip, Day, Some(3), Some(2))}

\* a body whose `when` is text that Date cannot parse
GarbledWhen == Trip(FirstTrip, <<0>>, Some(2), Some(1))

StdBody == Trip(FirstTrip, Day, Some(2), Some(1))

\* each required field missing or empty in turn
InvalidBodies ==
    {[StdBody EXCEPT !.pickup = x] : x \in {None, Some(<<>>)}}
    \cup {[StdBody EXCEPT !.dropoff = x] : x \in {None, Some(<<>>)}}
    \cup {[StdBody EXCEPT !.when = x] : x \in {None, Some(<<>>)}}

Request(hdr, body) == [hdr |-> hdr, body |-> body]

\* the drafts without a key check are sent no key variations
Requests(v) ==
    {Request(KeyHdr, Some(b)) : b \in ValidBodies \cup InvalidBodies}
    \cup (IF v = "P1" THEN {Request(KeyHdr, Some(GarbledWhen))} ELSE {})
    \cup {Request(KeyHdr, None)}
    \cup (IF v \in AuthVariants THEN {Request(h, Some(StdBody)) : h \in Hdrs} ELSE {})

\* the claim's normalized pair: both texts with letter case ignored
NormPair(b) == <<ToLowerCase(Get(b.pickup)), ToLowerCase(Get(b.dropoff))>>

----------------------------------------------------------------------------
(* Responses.  calls, outcome, dist, fresh and stale are history: the      *)
(* outbound calls the request made, the provider's answer to it, the       *)
(* resolved distance the quote was priced from, and whether at its start a *)
(* provider result for its normalized pair had succeeded within the TTL    *)
(* (fresh) or longer ago (stale).                                          *)

Resp(status, error, quote, rq, calls, outcome, dist, fresh, stale) ==
    [status |-> status, ok |-> IsSome(quote), error |-> error, quote |-> quote,
     req |-> rq, calls |-> calls, outcome |-> outcome, dist |-> dist,
     fresh |-> fresh, stale |-> stale,
     evicted |-> None,  \* history: the expired entry _get deleted for it
     body |-> None,     \* the JSON of /api/ping or /api/diag/auth
     route |-> "quote", booking |-> None]

NoResp == Resp(0, "", None, Request(NoHdr, None), 0, None, None, FALSE, FALSE)

\* a handler's position; calls counts the fetches it has issued
\* and evicted is the expired entry _get deleted when its request arrived
Idle == [pc |-> "idle", rq |-> Request(NoHdr, None), fresh |-> FALSE, stale |-> FALSE,
         calls |-> 0, evicted |-> None]
Await(rq, fresh, stale, evicted) ==
    [pc |-> "await", rq |-> rq, fresh |-> fresh, stale |-> stale,
     calls |-> 1, evicted |-> evicted]

NoMock == <<>>

----------------------------------------------------------------------------
(* The state machine *)

Init ==
    /\ variant \in Variants
    /\ window = DefaultWindow
    /\ mapsKey \in BOOLEAN
    /\ serverKey \in (IF variant \in AuthVariants THEN {<<>>, GoodKey} ELSE {<<>>})
    /\ now = 0
    /\ cache = <<>>
    /\ reqs = [c \in Conns |-> Idle]
    /\ lastResp = NoResp
    /\ okAt = <<>>
    /\ mock = NoMock
    /\ probe = None

\* res.json(...) ends the handler of connection c
Respond(c, resp) ==
    /\ lastResp' = resp
    /\ reqs' = [reqs EXCEPT ![c] = Idle]
    /\ probe' \in (IF mock # NoMock /\ probe = None /\ resp.ok
                   THEN {None, Some(resp)} ELSE {probe})

\* the 200 response of a quote priced from helper result d
QuoteResp(rq, d, calls, outcome, fresh, stale) ==
    LET b == BodyOf(rq)
        r == Resolve(variant, b, d)
    IN  Resp(200, "", Some(Quote(variant, b, r)), rq, calls, outcome, Some(r),
             fresh, stale)

\* P1: the 200 response of a quote priced from the cached pair
CacheResp(rq, data, fresh, stale) ==
    LET b == BodyOf(rq)
        r == Resolved(data.km, data.mins, "cache", FALSE)
    IN  Resp(200, "", Some(quoteP1(b, r)), rq, 0, None, Some(r), fresh, stale)

\* POST /api/quote arrives on connection c: the middleware and the handler
\* up to its first await on fetch, or to its response when it makes no call
Receive(c, rq) ==
    /\ lastResp = NoResp
    /\ reqs[c].pc = "idle"
    /\ LET auth == Auth(variant, rq.hdr)
           b == BodyOf(rq)
           err == ValidationError(variant, b)
       IN  IF auth # "next"
           THEN /\ Respond(c, Resp(IF auth = "500" THEN 500 ELSE 401, AuthError(auth),
                                   None, rq, 0, None, None, FALSE, FALSE))
                /\ UNCHANGED cache
           ELSE IF err # ""
           THEN /\ Respond(c, Resp(400, err, None, rq, 0, None, None, FALSE, FALSE))
                /\ UNCHANGED cache
           ELSE LET p == Get(b.pickup)
                    q == Get(b.dropoff)
                    seen == NormPair(b) \in DOMAIN okAt
                    fresh == seen /\ now - okAt[NormPair(b)] <= _TTL_MS
                    stale == seen /\ now - okAt[NormPair(b)] > _TTL_MS
                    cached == IF variant = "P1" THEN _get(p, q) ELSE None
                    ev == IF variant = "P1" THEN _getEvicted(p, q) ELSE None
               IN  /\ cache' = IF variant = "P1" THEN _getEffect(p, q) ELSE cache
                   /\ IF cacheUsable(cached)
                      THEN Respond(c, CacheResp(rq, Get(cached), fresh, stale))
                      ELSE IF ~mapsKey
                      THEN Respond(c, [QuoteResp(rq, NoDist, 0, None, fresh, stale)
                                          EXCEPT !.evicted = ev])
                      ELSE /\ reqs' = [reqs EXCEPT ![c] = Await(rq, fresh, stale, ev)]
                           /\ UNCHANGED <<lastResp, probe>>
    /\ UNCHANGED <<variant, window, mapsKey, serverKey, now, okAt, mock>>

\* a handler that tries the provider once more after a failed attempt
Resume_Retry(c, o, outcome) ==
    LET rq == reqs[c].rq
        d == Helper(variant, o)
    IN  IF d.tag # "ok" /\ reqs[c].calls < 2
        THEN /\ reqs' = [reqs EXCEPT ![c].calls = @ + 1]
             /\ UNCHANGED <<variant, window, mapsKey, serverKey, now, cache, lastResp, okAt,
                            mock, probe>>
        ELSE /\ Respond(c, [QuoteResp(rq, d, reqs[c].calls, outcome, reqs[c].fresh,
                                      reqs[c].stale)
                                EXCEPT !.evicted = reqs[c].evicted])
             /\ UNCHANGED <<variant, window, mapsKey, serverKey, now, cache, okAt, mock>>

\* a handler that caches whatever distance it priced, the fallback included
Resume_StoreFallback(c, o, outcome) ==
    LET rq == reqs[c].rq
        b == BodyOf(rq)
        d == Helper(variant, o)
        r == Resolve(variant, b, d)
    IN  /\ cache' = IF variant = "P1"
                    THEN _set(cache, Get(b.pickup), Get(b.dropoff),
                              [km |-> r.km, mins |-> r.min])
                    ELSE cache
        /\ okAt' = okAt
        /\ Respond(c, [QuoteResp(rq, d, reqs[c].calls, outcome, reqs[c].fresh,
                                 reqs[c].stale)
                           EXCEPT !.evicted = reqs[c].evicted])
        /\ UNCHANGED <<variant, window, mapsKey, serverKey, now, mock>>

\* the handler of connection c resumes with the provider's answer o
Resume(c, o, outcome) ==
    LET rq == reqs[c].rq
        b == BodyOf(rq)
        d == Helper(variant, o)
        stored == variant = "P1" /\ d.tag = "ok"
    IN  /\ cache' = IF stored
                    THEN _set(cache, Get(b.pickup), Get(b.dropoff),
                              [km |-> Get(d.km), mins |-> Get(d.min)])
                    ELSE cache
        /\ okAt' = IF stored
                   THEN [k \in DOMAIN okAt \cup {NormPair(b)} |->
                            IF k = NormPair(b) THEN now ELSE okAt[k]]
                   ELSE okAt
        /\ Respond(c, [QuoteResp(rq, d, reqs[c].calls, outcome, reqs[c].fresh,
                                 reqs[c].stale)
                           EXCEPT !.evicted = reqs[c].evicted])
        /\ UNCHANGED <<variant, window, mapsKey, serverKey, now, mock>>

\* the provider answers the call of connection c (or the connection fails)
ProviderReply(c, o) ==
    /\ lastResp = NoResp
    /\ reqs[c].pc = "await"
    /\ LET b == BodyOf(reqs[c].rq)
       IN  mock # NoMock => mock[<<Get(b.pickup), Get(b.dropoff)>>] = Some(o)
    /\ Resume(c, o, Some(o))

\* A: the abort timer of fetchJsonWithTimeout fires: fetch rejects
Timeout(c) ==
    /\ variant = "A"
    /\ lastResp = NoResp
    /\ reqs[c].pc = "await"
    /\ LET b == BodyOf(reqs[c].rq)
       IN  mock # NoMock => mock[<<Get(b.pickup), Get(b.dropoff)>>] = None
    /\ Resume(c, Reject, None)

\* what the provider may answer: anything, or what a mock holds
Answers == IF mock = NoMock THEN Outcomes ELSE {Route, Detour, Http500}

MaxTicks == 1
MaxJumps == 1

\* time passes: a millisecond, or a whole TTL
Tick(d) ==
    /\ d \in {1, _TTL_MS}
    /\ lastResp = NoResp
    /\ IF d = 1 THEN now % _TTL_MS < MaxTicks ELSE now \div _TTL_MS < MaxJumps
    /\ now' = now + d
    /\ UNCHANGED <<variant, window, mapsKey, serverKey, cache, reqs, lastResp, okAt, mock, probe>>

(* POST /api/book (A, P1, P2) *)

BookVariants == {"A", "P1", "P2"}

BookBody(pickup, dropoff, when, pax, luggage, name, email, phone) ==
    [quoteRef |-> None, pickup |-> pickup, dropoff |-> dropoff, when |-> when,
     pax |-> pax, luggage |-> luggage, name |-> name, email |-> email,
     phone |-> phone, notes |-> None]

\* req.body || {}
BookBodyOf(rq) ==
    IF IsSome(rq.body) THEN Get(rq.body)
    ELSE BookBody(None, None, None, None, None, None, None, None)

Jo == <<"J", "o">>
Phone == <<"0", "4">>
Mail == <<"j", "@", "x">>

ValidBooking ==
    BookBody(Some(BrisbaneAirport), Some(SouthBank), Some(Day), Some(2), Some(1),
             Some(Jo), Some(Mail), Some(Phone))

\* the booking bodies the model sends: complete ones, and ones that lack a
\* required field or hold '' for it
BookBodies ==
    {ValidBooking,
     [ValidBooking EXCEPT !.pax = None, !.luggage = None, !.email = None]}
    \cup {[ValidBooking EXCEPT ![f] = None] :
             f \in {"pickup", "dropoff", "when", "name", "phone"}}
    \cup {[ValidBooking EXCEPT ![f] = Some(<<>>)] : f \in {"when", "name", "phone"}}

BookRequests == {Request(NoHdr, Some(b)) : b \in BookBodies} \cup {Request(NoHdr, None)}

\* 'LM-' + Math.random().toString(36).slice(2, 8).toUpperCase(): six
\* characters as a rule, fewer (none for 0) when the expansion is short
Ids == {"LM-4F9K2A", "LM-"}

\* the booking of the 201 response
Booking(b, id) ==
    [id |-> id, quoteRef |-> b.quoteRef, pickup |-> Get(b.pickup),
     dropoff |-> Get(b.dropoff), when |-> Get(b.when),
     pax |-> NumberOr(b.pax, 1), luggage |-> NumberOr(b.luggage, 0),
     name |-> Get(b.name), email |-> b.email, phone |-> Get(b.phone),
     notes |-> b.notes, createdAt |-> now]

BookResp(status, error, booking, rq) ==
    [Resp(status, error, None, rq, 0, None, None, FALSE, FALSE)
        EXCEPT !.route = "book", !.ok = IsSome(booking), !.booking = booking]

\* a booking handler that does not ask for a phone number
Book_NoPhone(rq, id) ==
    /\ variant \in BookVariants
    /\ lastResp = NoResp
    /\ LET b == BookBodyOf(rq)
       IN  lastResp' =
             IF ~TruthyStr(b.pickup) \/ ~TruthyStr(b.dropoff) \/ ~TruthyStr(b.when)
                \/ ~TruthyStr(b.name)
             THEN BookResp(400, "pickup, dropoff, when, name, phone are required",
                           None, rq)
             ELSE BookResp(201, "", Some([Booking([b EXCEPT !.phone = Some(<<>>)], id)
                                             EXCEPT !.phone = b.phone]), rq)
    /\ UNCHANGED <<variant, window, mapsKey, serverKey, now, cache, reqs, okAt, mock, probe>>

\* POST /api/book: the whole handler, which is synchronous
Book(rq, id) ==
    /\ variant \in BookVariants
    /\ lastResp = NoResp
    /\ LET b == BookBodyOf(rq)
       IN  lastResp' =
             IF ~TruthyStr(b.pickup) \/ ~TruthyStr(b.dropoff) \/ ~TruthyStr(b.when)
                \/ ~TruthyStr(b.name) \/ ~TruthyStr(b.phone)
             THEN BookResp(400, "pickup, dropoff, when, name, phone are required",
                           None, rq)
             ELSE BookResp(201, "", Some(Booking(b, id)), rq)
    /\ UNCHANGED <<variant, window, mapsKey, serverKey, now, cache, reqs, okAt, mock, probe>>

\* the response is on the wire: the event loop takes its next event
Sent ==
    /\ lastResp # NoResp
    /\ lastResp' = NoResp
    /\ UNCHANGED <<variant, window, mapsKey, serverKey, now, cache, reqs, okAt, mock, probe>>

Next ==
    \/ \E c \in DOMAIN reqs, rq \in Requests(variant) : Receive(c, rq)
    \/ \E c \in DOMAIN reqs, o \in Answers : ProviderReply(c, o)
    \/ \E c \in DOMAIN reqs : Timeout(c)
    \/ \E d \in {1, _TTL_MS} : Tick(d)
    \/ Sent

Spec == Init /\ [][Next]_vars

\* the server with its booking route
NextBook ==
    \/ Next
    \/ \E rq \in BookRequests, id \in Ids : Book(rq, id)

SpecBook == Init /\ [][NextBook]_vars

\* the provider answers with durations in current traffic as well
TrafficOutcomes == {RouteJam, JamOnly}

InitTraffic ==
    /\ variant \in Variants
    /\ window = DefaultWindow
    /\ mapsKey = TRUE
    /\ serverKey \in (IF variant \in AuthVariants THEN {GoodKey} ELSE {<<>>})
    /\ now = 0
    /\ cache = <<>>
    /\ reqs = [c \in Conns |-> Idle]
    /\ lastResp = NoResp
    /\ okAt = <<>>
    /\ mock = NoMock
    /\ probe = None

NextTraffic ==
    \/ Next
    \/ \E c \in DOMAIN reqs, o \in TrafficOutcomes : ProviderReply(c, o)

SpecTraffic == InitTraffic /\ [][NextTraffic]_vars

(* The open routes: GET /api/ping and GET /api/diag/auth *)

OtherKey == <<"k","e","z">>
Secrets == {GoodKey, OtherKey}

\* crypto.createHash('sha256').update(s).digest('hex').slice(0, 10), for the
\* texts the model hashes
sha256Hex10(s) ==
    CASE s = <<>>     -> "e3b0c44298"
      [] s = GoodKey  -> "2c70e12b7a"
      [] s = OtherKey -> "24196fe817"
      [] s = WrongKey -> "2f05d4b689"

\* P0: fp(s)
fp(s) == sha256Hex10(Trim(s))

\* s.slice(0, n) and s.slice(-n)
SliceHead(s, n) == SubSeq(s, 1, Min(n, Len(s)))
SliceTail(s, n) == SubSeq(s, Max(1, Len(s) - n + 1), Len(s))

\* P3: the fp of /api/diag/auth
fpP3(v) ==
    LET t == Trim(v)
    IN  [len |-> Len(t), head |-> SliceHead(t, 4), tail |-> SliceTail(t, 4)]

\* every draft: the JSON of /api/ping; A and P1 do not report the maps key
ping(v) ==
    IF v \in {"A", "P1"} THEN [pong |-> TRUE, at |-> now]
    ELSE [pong |-> TRUE, at |-> now, mapsConfigured |-> mapsKey]

\* P0: the JSON of /api/diag/auth on a server whose SERVER_KEY_RAW is secret;
\* ok is Boolean(secret) && clientKey && secret === clientKey.trim()
diagAuthP0(secret, hdr) ==
    LET clientKey == clientKeyP0(hdr)
        ok == IF secret = <<>> THEN "false"
              ELSE IF clientKey = <<>> THEN "''"
              ELSE IF secret = Trim(clientKey) THEN "true" ELSE "false"
    IN  [ok |-> ok, match |-> ok,
         server |-> [hasKey |-> secret # <<>>, fp |-> fp(secret)],
         client |-> [present |-> clientKey # <<>>, fp |-> fp(clientKey)]]

\* P3: the JSON of /api/diag/auth on a server whose SERVER_KEY is secret
diagAuthP3(secret, hdr) ==
    LET clientKey == getClientKey(hdr)
    IN  [ok |-> TRUE,
         serverKeyPresent |-> secret # <<>>,
         clientKeyPresent |-> clientKey # <<>>,
         match |-> secret # <<>> /\ clientKey = secret,
         serverFp |-> fpP3(secret),
         clientFp |-> fpP3(clientKey)]

OpenRoutes(v) == IF v \in {"P0", "P3"} THEN {"ping", "diag"} ELSE {"ping"}

\* the JSON an open route answers with on a server whose secret is secret
OpenBody(v, secret, route, hdr) ==
    IF route = "ping" THEN ping(v)
    ELSE IF v = "P0" THEN diagAuthP0(secret, hdr)
    ELSE diagAuthP3(secret, hdr)

\* a GET on an open route is answered at once, whatever key it carries
Open(route, hdr) ==
    /\ lastResp = NoResp
    /\ route \in OpenRoutes(variant)
    /\ lastResp' = [Resp(200, "", None, Request(hdr, None), 0, None, None, FALSE, FALSE)
                        EXCEPT !.route = route,
                               !.body = Some(OpenBody(variant, serverKey, route, hdr))]
    /\ UNCHANGED <<variant, window, mapsKey, serverKey, now, cache, reqs, okAt, mock, probe>>

\* the keys a client of the open routes sends
OpenHdrs == {NoHdr, KeyHdr, Hdr(Some(WrongKey), None, None, None),
             Hdr(None, Some(WrongKey), None, None)}

\* the drafts with a secret configured, one of two
InitOpen ==
    /\ variant \in Variants
    /\ window = DefaultWindow
    /\ mapsKey \in BOOLEAN
    /\ serverKey \in (IF variant \in AuthVariants THEN Secrets ELSE {<<>>})
    /\ now = 0
    /\ cache = <<>>
    /\ reqs = [c \in Conns |-> Idle]
    /\ lastResp = NoResp
    /\ okAt = <<>>
    /\ mock = NoMock
    /\ probe = None

NextOpen ==
    \/ Next
    \/ \E route \in {"ping", "diag"}, hdr \in OpenHdrs : Open(route, hdr)

SpecOpen == InitOpen /\ [][NextOpen]_vars

\* two connections: a handler may be at its await on fetch while the
\* handler of another request runs (P1, and A for its abort timer)
Pair == {"c1", "c2"}

InitPair ==
    /\ variant \in {"A", "P1"}
    /\ window = DefaultWindow
    /\ mapsKey = TRUE
    /\ serverKey = <<>>
    /\ now = 0
    /\ cache = <<>>
    /\ reqs = [c \in Pair |-> Idle]
    /\ lastResp = NoResp
    /\ okAt = <<>>
    /\ mock = NoMock
    /\ probe = None

\* the airport trip as two clients spell it, and another trip
PairRequests ==
    {Request(KeyHdr, Some(StdBody)),
     Request(KeyHdr, Some(Trip(<<ToLowerCase(BrisbaneAirport), SouthBank>>,
                               Day, Some(2), Some(1)))),
     Request(KeyHdr, Some(Trip(<<<<"A">>, <<"B","|","|","C">>>>, Day, Some(2), Some(1))))}

PairAnswers == {Route, Detour, Http500}

NextPair ==
    \/ \E c \in DOMAIN reqs, rq \in PairRequests : Receive(c, rq)
    \/ \E c \in DOMAIN reqs, o \in PairAnswers : ProviderReply(c, o)
    \/ \E c \in DOMAIN reqs : Timeout(c)
    \/ \E d \in {1, _TTL_MS} : Tick(d)
    \/ Sent

SpecPair == InitPair /\ [][NextPair]_vars

\* the drafts with the after-hours window set by the environment
InitHours ==
    /\ variant \in {"A", "P1"}
    /\ window \in (IF variant = "P1" THEN Windows ELSE {DefaultWindow})
    /\ mapsKey \in (IF window = DefaultWindow THEN BOOLEAN ELSE {FALSE})
    /\ serverKey = <<>>
    /\ now = 0
    /\ cache = <<>>
    /\ reqs = [c \in Conns |-> Idle]
    /\ lastResp = NoResp
    /\ okAt = <<>>
    /\ mock = NoMock
    /\ probe = None

SpecHours == InitHours /\ [][Next]_vars

\* the mocked providers of the idempotence test: each gives every call for
\* a (pickup, dropoff) pair the same answer, or none at all
Mocks ==
    { [t \in Trips |-> Some(Route)],
      [t \in Trips |-> IF t[1] = <<"A">> THEN Some(Detour) ELSE Some(Route)],
      [t \in Trips |-> Some(Http500)],
      [t \in Trips |-> None] }

InitMock ==
    /\ variant \in Variants
    /\ window = DefaultWindow
    /\ mapsKey \in BOOLEAN
    /\ serverKey \in (IF variant \in AuthVariants THEN {<<>>, GoodKey} ELSE {<<>>})
    /\ now = 0
    /\ cache = <<>>
    /\ reqs = [c \in Conns |-> Idle]
    /\ lastResp = NoResp
    /\ okAt = <<>>
    /\ mock \in Mocks
    /\ probe = None

SpecMock == InitMock /\ [][Next]_vars

\* the node event loop runs a due timer and flushes a written response;
\* nothing obliges the provider to answer or a client to send
LiveSpec ==
    /\ Spec
    /\ WF_vars(Sent)
    /\ \A c \in Conns : WF_vars(Timeout(c))

----------------------------------------------------------------------------
(* Reading a response *)

\* a response to POST /api/quote is written
Written == lastResp # NoResp /\ lastResp.route = "quote"
TheBody == BodyOf(lastResp.req)
TheQuote == Get(lastResp.quote)
TheDist == Get(lastResp.dist)

\* the label of the distance source in the quote
SourceOf(q) == IF variant = "P1" THEN q.source ELSE q.breakdown.distanceSource

\* the request got past the key check
Admitted == Written /\ Auth(variant, lastResp.req.hdr) = "next"

\* a required field of the quote body is missing or empty, or there is no body
LacksRequired(b) == ~TruthyStr(b.pickup) \/ ~TruthyStr(b.dropoff) \/ ~TruthyStr(b.when)

\* the fields an error message names
NamedFields(err) ==
    CASE err = "pickup, dropoff, and when are required" -> {"pickup", "dropoff", "when"}
      [] err = "Missing pickup/dropoff/when" -> {"pickup", "dropoff", "when"}
      [] err = "pickup and dropoff are required" -> {"pickup", "dropoff"}
      [] OTHER -> {}

MissingFields(b) ==
    {f \in {"pickup", "dropoff", "when"} : ~TruthyStr(b[f])}

----------------------------------------------------------------------------
(* C1: in every variant a quote request that lacks pickup, dropoff or      *)
(* when, or has no body, is answered 400 ok:false with an error naming the *)
(* missing fields, without a quote and without an outbound call.           *)
C1_MissingFieldIs400 ==
    (Admitted /\ LacksRequired(TheBody)) =>
        /\ lastResp.status = 400
        /\ ~lastResp.ok
        /\ lastResp.quote = None
        /\ lastResp.calls = 0
        /\ IsSome(lastResp.req.body) =>
              MissingFields(TheBody) \subseteq NamedFields(lastResp.error)

\* the case: B or P3 answers a body without `when` with a quote
C1_QuoteWithoutWhen ==
    /\ Admitted
    /\ variant \in {"B", "P3"}
    /\ ~TruthyStr(TheBody.when)
    /\ lastResp.status = 200

----------------------------------------------------------------------------
\* the request is valid and its provider call failed in one of the listed
\* ways: no credential, network exception, non-2xx status, non-OK top-level
\* status, non-OK element status
ProviderFailed ==
    /\ Admitted
    /\ ~LacksRequired(TheBody)
    /\ \/ lastResp.calls = 0 /\ ~mapsKey
       \/ IsSome(lastResp.outcome) /\ Get(lastResp.outcome) \in Failures

\* the distance the quote reports lies in [lo, hi] km
ReportedKmIn(q, lo, hi) ==
    IF variant = "P1" THEN 100 * lo <= q.distance_km /\ q.distance_km <= 100 * hi
    ELSE 1000 * lo <= q.breakdown.distanceKm /\ q.breakdown.distanceKm <= 1000 * hi

(* C2: with valid required fields every provider failure ends in a 200     *)
(* ok:true quote labelled "rough" whose distance is the fallback estimate, *)
(* within its range of 5 to 45 km.                                         *)
C2_FailureIsRough ==
    ProviderFailed =>
        /\ lastResp.status = 200
        /\ lastResp.ok
        /\ SourceOf(TheQuote) = "rough"
        /\ TheDist.rough
        /\ ReportedKmIn(TheQuote, 5, 45)

\* the case: P1 answers a failed provider call with the label "fallback"
C2_FallbackLabel ==
    /\ ProviderFailed
    /\ variant = "P1"
    /\ lastResp.status = 200
    /\ SourceOf(TheQuote) = "fallback"

----------------------------------------------------------------------------
\* the request carries, in one of the places a draft reads, the secret
Presents(hdr, secret) ==
    /\ secret # <<>>
    /\ \E f \in {"lms", "dash", "xapi", "query"} :
          IsSome(hdr[f]) /\ Trim(Get(hdr[f])) = secret

Refused401 ==
    /\ lastResp.status = 401
    /\ ~lastResp.ok
    /\ lastResp.error = "Unauthorized"
    /\ lastResp.quote = None
    /\ lastResp.calls = 0

(* C3 as claimed: under every configuration, the unset secret included, a  *)
(* request that does not carry the secret is answered 401 Unauthorized and *)
(* never reaches the quote handler.                                        *)
C3_AlwaysRefused ==
    (Written /\ variant \in AuthVariants /\ ~Presents(lastResp.req.hdr, serverKey))
        => Refused401

(* C3 as amended: with a secret configured, a request that does not carry  *)
(* it is answered 401 Unauthorized without reaching the handler, and only  *)
(* a request carrying it reaches the handler; with the secret unset P0     *)
(* answers 401, P3 answers 500 "Server key not configured", and B lets     *)
(* every request through to the handler.                                   *)
C3_RefusedWhenConfigured ==
    (Written /\ variant \in AuthVariants) =>
        /\ (serverKey # <<>> /\ ~Presents(lastResp.req.hdr, serverKey)) => Refused401
        /\ (serverKey # <<>> /\ lastResp.status \in {200, 400})
              => Presents(lastResp.req.hdr, serverKey)
        /\ serverKey = <<>> =>
              CASE variant = "P0" -> Refused401
                [] variant = "P3" -> /\ lastResp.status = 500
                                     /\ lastResp.error = "Server key not configured"
                                     /\ lastResp.quote = None
                                     /\ lastResp.calls = 0
                [] variant = "B"  -> lastResp.status \in {200, 400}

\* the case: a configured server refuses a request with a wrong key
C3_WrongKeyRefused ==
    /\ Written
    /\ variant \in AuthVariants
    /\ serverKey # <<>>
    /\ IsSome(lastResp.req.hdr.lms)
    /\ ~Presents(lastResp.req.hdr, serverKey)
    /\ lastResp.status = 401

----------------------------------------------------------------------------
(* C4: in P1, a request whose normalized pair had a successful provider    *)
(* result within the last 12 hours makes no outbound call and reports      *)
(* "cache", whatever that result was; one arriving after the 12 hours      *)
(* makes a new call.                                                       *)
C4_CachedWithinTTL ==
    (Written /\ variant = "P1" /\ lastResp.ok) =>
        /\ lastResp.fresh => (lastResp.calls = 0 /\ SourceOf(TheQuote) = "cache")
        /\ (lastResp.stale /\ mapsKey) => lastResp.calls = 1

\* the case: a second request within the TTL calls the provider again
C4_CalledAgain ==
    /\ Written
    /\ variant = "P1"
    /\ lastResp.fresh
    /\ lastResp.calls = 1

----------------------------------------------------------------------------
\* the answer is OK, its element is OK and carries a distance value
HasDistance(o) ==
    /\ o.kind = "resp" /\ o.httpOk /\ o.status = "OK"
    /\ ElementOK(o)
    /\ IsSome(Val(Get(o.el).distance))

Meters(o) == Get(Val(Get(o.el).distance))

\* the quote reports m metres (P1 reports km to 2 decimals)
ReportsMeters(q, m) ==
    IF variant = "P1" THEN q.distance_km = RoundDiv(m, 10)
    ELSE q.breakdown.distanceKm = m

(* C5: when the provider's answer is OK with an OK element carrying a      *)
(* distance of m metres, the quote is labelled "google", reports m/1000 km *)
(* and is priced from that distance.                                       *)
C5_ProviderDistanceUsed ==
    (Written /\ lastResp.ok /\ IsSome(lastResp.outcome)
        /\ HasDistance(Get(lastResp.outcome))) =>
        /\ SourceOf(TheQuote) = "google"
        /\ ReportsMeters(TheQuote, Meters(Get(lastResp.outcome)))
        /\ TheDist.km = Meters(Get(lastResp.outcome))
        /\ ~TheDist.rough

\* the case: a distance arrived and the quote is priced from the estimate
C5_DistanceDropped ==
    /\ Written /\ lastResp.ok /\ IsSome(lastResp.outcome)
    /\ HasDistance(Get(lastResp.outcome))
    /\ TheDist.rough

----------------------------------------------------------------------------
(* C6: a quote labelled "google" carries the distance value the provider   *)
(* sent, and a quote priced from the fallback estimate is labelled as a    *)
(* fallback (P1's own word for it, "fallback", is let pass here: C2).      *)
C6_GoogleHasDistance ==
    (Written /\ lastResp.ok) =>
        /\ SourceOf(TheQuote) = "google" =>
              /\ IsSome(lastResp.outcome)
              /\ HasDistance(Get(lastResp.outcome))
              /\ TheDist.km = Meters(Get(lastResp.outcome))
              /\ ~TheDist.rough
        /\ TheDist.rough => SourceOf(TheQuote) \in {"rough", "fallback"}

\* the case: an OK element without a distance value yields a "google" quote
C6_GoogleWithoutDistance ==
    /\ Written /\ lastResp.ok
    /\ IsSome(lastResp.outcome)
    /\ ~HasDistance(Get(lastResp.outcome))
    /\ SourceOf(TheQuote) = "google"

----------------------------------------------------------------------------
(* C7: in every variant a request waiting on the provider is answered in   *)
(* the end, the provider silent or not.                                    *)
C7_NoRequestWaitsForever ==
    \A c \in Conns : (reqs[c].pc = "await") ~> (reqs[c].pc = "idle")

\* the case: a request is waiting on the provider in a draft without a timer
C7_WaitingWithoutTimer ==
    \E c \in Conns : reqs[c].pc = "await" /\ variant # "A"

----------------------------------------------------------------------------
\* the sum of the cost components a breakdown lists, rounded to cents.
\* A and P2 list base, perKm * distanceKm, perPax and perBag; P1 lists
\* breakdown.components.  (B, P0 and P3 list rates, not components.)
ComponentsTotal(q) ==
    IF variant = "P1"
    THEN LET k == q.breakdown.components
         IN  k.base + k.perKm + k.perMin + k.pPax + k.pBag
             + (IF IsSome(k.afterHours) THEN Get(k.afterHours) ELSE 0)
             + (IF IsSome(k.airport) THEN Get(k.airport) ELSE 0)
    ELSE LET k == q.breakdown
         IN  Round2(DollarU * (k.base + k.perPax + k.perBag)
                    + k.perKm * k.distanceKm * (DollarU \div 10000))

(* C8: the total of every quote is the sum of the cost components of its   *)
(* breakdown rounded to cents, and is not negative.                        *)
C8_TotalIsSumOfComponents ==
    (Written /\ lastResp.ok /\ variant \in {"A", "P1", "P2"}) =>
        /\ TheQuote.total = ComponentsTotal(TheQuote)
        /\ TheQuote.total >= 0

\* the case: P1's components, each rounded, do not add up to the total
C8_ComponentsOff ==
    /\ Written /\ lastResp.ok /\ variant = "P1"
    /\ TheQuote.total # ComponentsTotal(TheQuote)

----------------------------------------------------------------------------
\* the reference price in cents: per extra passenger, rounded once
ReferenceTotal(b, r) ==
    LET pax == IF IsSome(b.pax) THEN Get(b.pax) ELSE 1
        bags == IF IsSome(b.luggage) THEN Get(b.luggage) ELSE 0
        subtotal == DollarU * (PRICE_BASE + PRICE_PER_PAX * Max(0, pax - 1)
                               + PRICE_PER_BAG * bags)
                    + KmCost(r.km)
                    + (IF variant = "P1" THEN MinCost(r.min) ELSE 0)
        extra == IF variant = "P1" /\ isAfterHours(Get(b.when))
                 THEN (subtotal * AFTER_HOURS_RATE_PCT) \div 100 ELSE 0
    IN  Round2(subtotal + extra)

(* C9: the total is round2(base + perKm * km + perMin * min (P1) + perPax  *)
(* * max(0, pax - 1) + perBag * luggage + surcharges), pax omitted counting *)
(* as 1 and luggage as 0; for Brisbane Airport to South Bank, 2 pax, 1 bag *)
(* and no provider, in the drafts that do not price minutes, it is 107.20. *)
C9_ReferencePrice ==
    (Written /\ lastResp.ok) =>
        /\ TheQuote.total = ReferenceTotal(TheBody, TheDist)
        /\ (TheBody = StdBody /\ TheDist.rough /\ variant # "P1")
              => TheQuote.total = 10720

\* the case: P3 prices both passengers
C9_PerPassenger ==
    /\ Written /\ lastResp.ok /\ variant = "P3"
    /\ TheBody = StdBody /\ TheDist.rough
    /\ TheQuote.total = 11220

----------------------------------------------------------------------------
(* C10: a quote request repeated with the same pickup, dropoff, when, pax  *)
(* and luggage against a provider that gives every call for a pair the    *)
(* same data gets the same total and the same breakdown, whatever was      *)
(* served in between, from the provider or from the cache.                 *)
C10_RepeatedQuoteIsIdentical ==
    (Written /\ lastResp.ok /\ IsSome(probe)
        /\ Get(probe).req.body = lastResp.req.body) =>
        /\ TheQuote.total = Get(Get(probe).quote).total
        /\ TheQuote.breakdown = Get(Get(probe).quote).breakdown

\* the case: P1 prices a repeated request from another pair's cache entry
C10_OtherPairsEntry ==
    /\ Written /\ lastResp.ok /\ IsSome(probe)
    /\ variant = "P1"
    /\ Get(probe).req.body = lastResp.req.body
    /\ TheQuote.total # Get(Get(probe).quote).total

----------------------------------------------------------------------------
\* the one attempt of the request answered failed: a failure mode of the
\* provider, or the abort timer
AttemptFailed ==
    /\ Written /\ lastResp.ok /\ lastResp.calls >= 1
    /\ \/ lastResp.outcome = None
       \/ Get(lastResp.outcome) \in Failures

(* C11: a quote request makes at most one call to the provider: no handler *)
(* is ever waiting on a second call, no response reports more than one,    *)
(* and after a failed attempt the quote is priced from the fallback.       *)
C11_AtMostOneCall ==
    /\ \A c \in DOMAIN reqs : reqs[c].calls <= 1
    /\ Written => lastResp.calls <= 1
    /\ AttemptFailed => (lastResp.calls = 1 /\ TheDist.rough)

\* the case: the provider failed and the request was answered after one call
C11_FailedOnce ==
    /\ AttemptFailed
    /\ IsSome(lastResp.outcome)
    /\ lastResp.calls = 1
    /\ TheDist.rough

----------------------------------------------------------------------------
\* in this step the cache gets entry k, or entry k changes
CacheWrite(k) ==
    /\ k \in DOMAIN cache'
    /\ k \notin DOMAIN cache \/ cache'[k] # cache[k]

\* in this step a handler waiting for the pair of key k gets an OK element
\* from the provider, and entry k holds that element's km and minutes (0
\* for a missing value) stamped with the present time
StoredFromProvider(k) ==
    \E c \in DOMAIN reqs :
        /\ reqs[c].pc = "await"
        /\ k = _key(Get(BodyOf(reqs[c].rq).pickup), Get(BodyOf(reqs[c].rq).dropoff))
        /\ lastResp'.ok
        /\ IsSome(lastResp'.outcome)
        /\ LET o == Get(lastResp'.outcome)
           IN  /\ o.kind = "resp" /\ o.httpOk /\ ElementOK(o)
               /\ cache'[k].t = now
               /\ cache'[k].data = [km |-> Get(matrixResult(o).km),
                                    mins |-> Get(matrixResult(o).min)]

\* this step answers a request with a quote priced from the fallback
FellBack ==
    /\ lastResp' # NoResp /\ lastResp'.route = "quote"
    /\ lastResp'.ok /\ Get(lastResp'.dist).rough

----------------------------------------------------------------------------
\* the response is an error of the listed kinds, or a complete quote
WellFormed(resp) ==
    \/ /\ resp.status \in {400, 401, 500}
       /\ ~resp.ok
       /\ resp.quote = None
       /\ resp.error # ""
    \/ /\ resp.status = 200
       /\ resp.ok
       /\ resp.error = ""
       /\ LET q == Get(resp.quote)
          IN  /\ q.total \in Nat
              /\ IF variant = "P1" THEN q.distance_km \in Nat
                 ELSE q.breakdown.distanceKm \in Nat
              /\ SourceOf(q) \in {"google", "rough", "cache", "fallback"}

(* C13: every quote request ends in a response, whatever the provider did, *)
(* and every response is an error (400, 401, 500, ok:false) or a 200       *)
(* ok:true quote with a numeric total, a numeric distance and a source.    *)
C13_OneCompleteResponse ==
    /\ [](Written => WellFormed(lastResp))
    /\ \A c \in Conns : [](reqs[c].pc = "await" => <>(Written /\ reqs[c].pc = "idle"))

\* the responses that are written are complete
C13_ResponsesComplete == Written => WellFormed(lastResp)

\* the case: P0 or P3 is waiting on the provider, with no timer to end it
C13_WaitingInP0P3 ==
    \E c \in Conns : reqs[c].pc = "await" /\ variant \in {"P0", "P3"}

----------------------------------------------------------------------------
\* this step answers a POST /api/book
BookStep == lastResp = NoResp /\ lastResp' # NoResp /\ lastResp'.route = "book"

\* a required field of the booking body is missing or empty
LacksBookField(b) ==
    \E f \in {"pickup", "dropoff", "when", "name", "phone"} :
        b[f] = None \/ b[f] = Some(<<>>)

----------------------------------------------------------------------------
\* the time of day of `when` lies in the window: start <= t < end, or across
\* midnight t >= start or t < end; never for a `when` that is not a date
InWindow(w) ==
    /\ Len(w) = 2
    /\ LET t == 60 * w[1] + w[2]
       IN  IF window[1] <= window[2]
           THEN window[1] <= t /\ t < window[2]
           ELSE t >= window[1] \/ t < window[2]

\* P1's subtotal before surcharges, from the distance the quote was priced on
Subtotal(b, r) ==
    DollarU * (PRICE_BASE
               + PRICE_PER_PAX * Max(0, (IF IsSome(b.pax) THEN Get(b.pax) ELSE 1) - 1)
               + PRICE_PER_BAG * (IF IsSome(b.luggage) THEN Get(b.luggage) ELSE 0))
    + KmCost(r.km) + MinCost(r.min)

(* C15: in P1 the after-hours surcharge, subtotal times afterHoursRate, is *)
(* part of the quote exactly when the time of day of `when` lies in the    *)
(* configured window, wrapping past midnight when start > end; a `when`    *)
(* that is not a date gets none.                                           *)
C15_AfterHoursWindow ==
    (Written /\ lastResp.ok /\ variant = "P1") =>
        LET sub == Subtotal(TheBody, TheDist)
            extra == (sub * AFTER_HOURS_RATE_PCT) \div 100
            k == TheQuote.breakdown.components
        IN  IF InWindow(Get(TheBody.when))
            THEN k.afterHours = Some(Round2(extra)) /\ TheQuote.total = Round2(sub + extra)
            ELSE k.afterHours = None /\ TheQuote.total = Round2(sub)

\* the case: a window across midnight, a request at its first minute, charged
C15_ChargedAtStart ==
    /\ Written /\ lastResp.ok /\ variant = "P1"
    /\ window[1] > window[2]
    /\ Len(Get(TheBody.when)) = 2
    /\ 60 * Get(TheBody.when)[1] + Get(TheBody.when)[2] = window[1]
    /\ IsSome(TheQuote.breakdown.components.afterHours)

----------------------------------------------------------------------------
\* the drafts whose estimate is the clamped difference of the text lengths
StringLengthVariants == {"A", "P1", "P2"}

\* the estimate the claim gives for a pickup and a dropoff, in km
ClaimedEstimate(v, p, q) ==
    IF v \in StringLengthVariants
    THEN Min(45, Max(5, Abs(Len(p) - Len(q)) + 10))
    ELSE IF /\ Includes(ToLowerCase(p), strBrisbaneAirport)
            /\ Includes(ToLowerCase(q), strSouthBank)
         THEN 16 ELSE 12

(* C16: a quote priced from the fallback has the estimate as its distance: *)
(* min(45, max(5, |len(pickup) - len(dropoff)| + 10)) km in A, P1 and P2,  *)
(* and in the other drafts 16 km from Brisbane Airport to South Bank and   *)
(* 12 km for any other trip; the quote reports it, within 5 to 45 km.      *)
C16_FallbackEstimate ==
    (Written /\ lastResp.ok /\ TheDist.rough) =>
        LET km == ClaimedEstimate(variant, Get(TheBody.pickup), Get(TheBody.dropoff))
        IN  /\ TheDist.km = 1000 * km
            /\ ReportsMeters(TheQuote, 1000 * km)
            /\ 5 <= km /\ km <= 45

\* the case: B estimates 16 km for a trip that is not the airport trip
C16_SixteenForAnyTrip ==
    /\ variant = "B"
    /\ Written /\ lastResp.ok /\ TheDist.rough
    /\ ~Includes(ToLowerCase(Get(TheBody.pickup)), strBrisbaneAirport)
    /\ TheDist.km = 1000 * 16
    /\ ReportsMeters(TheQuote, 1000 * 16)

----------------------------------------------------------------------------
\* the minutes the quote reports, or <<>> for null
ReportedMinutes(q) ==
    IF variant = "P1" THEN Some(q.duration_min) ELSE q.breakdown.durationMin

\* the provider's answer is OK with an OK element
ElementArrived(o) == o.kind = "resp" /\ o.httpOk /\ o.status = "OK" /\ ElementOK(o)

(* C17: when the provider's OK element carries a duration in current       *)
(* traffic, the quote's durationMin is that value in whole minutes, beside *)
(* a static duration as well as without one; the static duration is used   *)
(* only when there is no duration in traffic.                              *)
C17_TrafficPreferred ==
    (Written /\ lastResp.ok /\ IsSome(lastResp.outcome)
        /\ ElementArrived(Get(lastResp.outcome))) =>
        LET el == Get(Get(lastResp.outcome).el)
        IN  /\ IsSome(Val(el.traffic)) =>
                  ReportedMinutes(TheQuote) = Some(RoundDiv(Get(Val(el.traffic)), 60))
            /\ (el.traffic = None /\ TruthyNum(Val(el.duration))
                  /\ TruthyNum(Val(el.distance))) =>
                  ReportedMinutes(TheQuote) = Some(RoundDiv(Get(Val(el.duration)), 60))

\* the case: both durations arrived and the quote reports the static one
C17_StaticReported ==
    /\ Written /\ lastResp.ok /\ IsSome(lastResp.outcome)
    /\ Get(lastResp.outcome) = RouteJam
    /\ variant \in {"B", "P2", "P3"}
    /\ ReportedMinutes(TheQuote) = Some(RoundDiv(1201, 60))

----------------------------------------------------------------------------
\* connection c waits on a provider call for the normalized pair k
CallInFlight(c, k) ==
    /\ reqs[c].pc = "await"
    /\ NormPair(BodyOf(reqs[c].rq)) = k

(* C18: in P1, however the handlers interleave at their await, no two      *)
(* provider calls for one normalized pair are in flight at once: a request *)
(* that arrives while another for its pair waits on the provider issues no *)
(* call of its own.                                                        *)
C18_OneCallPerKey ==
    variant = "P1" =>
        \A c, d \in DOMAIN reqs :
            (c # d /\ reqs[c].pc = "await" /\ reqs[d].pc = "await") =>
                NormPair(BodyOf(reqs[c].rq)) # NormPair(BodyOf(reqs[d].rq))

\* the case: two requests for one pair both wait on their own provider call
C18_TwoCallsInFlight ==
    /\ variant = "P1"
    /\ CallInFlight("c1", NormPair(StdBody))
    /\ CallInFlight("c2", NormPair(StdBody))
    /\ reqs["c1"].calls = 1 /\ reqs["c2"].calls = 1
    /\ BodyOf(reqs["c1"].rq).pickup # BodyOf(reqs["c2"].rq).pickup

----------------------------------------------------------------------------
\* the quote was served from the cache
CacheHit == Written /\ lastResp.ok /\ variant = "P1" /\ SourceOf(TheQuote) = "cache"

\* the key under which P1 looks the request's trip up
KeyOf(b) == _key(Get(b.pickup), Get(b.dropoff))

(* C19: in P1 a quote served from the cache is served from an entry that a *)
(* provider call for the same pickup and the same dropoff, letter case     *)
(* ignored, stored: the entry's stamp is the time of that pair's last      *)
(* stored provider result, and the distance is the entry's.                *)
C19_HitIsOwnPair ==
    CacheHit =>
        /\ NormPair(TheBody) \in DOMAIN okAt
        /\ KeyOf(TheBody) \in DOMAIN cache
        /\ cache[KeyOf(TheBody)].t = okAt[NormPair(TheBody)]
        /\ TheDist.km = cache[KeyOf(TheBody)].data.km

\* the case: a trip the provider was never asked about is served an entry
C19_ServedAnotherPair ==
    /\ CacheHit
    /\ NormPair(TheBody) \notin DOMAIN okAt
    /\ DOMAIN okAt # {}
    /\ TheDist.km = cache[KeyOf(TheBody)].data.km

----------------------------------------------------------------------------
\* the bodies of the quote requests that pass validation
QuoteBodies(v) ==
    {b \in {BodyOf(rq) : rq \in Requests(v)} : ValidationError(v, b) = ""}

\* this step is the handler reading a valid quote request with body b: it
\* goes on to its provider call or answers at once
Arrives(b) ==
    \/ \E c \in DOMAIN reqs :
          /\ reqs[c].pc = "idle" /\ reqs'[c].pc = "await"
          /\ BodyOf(reqs'[c].rq) = b
    \/ /\ lastResp = NoResp /\ lastResp' # NoResp
       /\ lastResp'.route = "quote" /\ lastResp'.ok /\ lastResp'.calls = 0
       /\ BodyOf(lastResp'.req) = b

\* the age of the entry under key k, from the time it was stored
Age(k) == now - cache[k].t

(* C20: in P1 a quote is served from the cache only from an entry whose    *)
(* age since it was stored is at most 12 hours, and the hit leaves the     *)
(* entry and its stamp as they were; a request that finds the entry of its *)
(* key older than that deletes it and is not served from the cache.        *)
C20_ServedWithinTTL ==
    [][variant = "P1" =>
          /\ CacheHit' =>
                /\ KeyOf(TheBody') \in DOMAIN cache
                /\ Age(KeyOf(TheBody')) <= _TTL_MS
                /\ TheDist'.km = cache[KeyOf(TheBody')].data.km
                /\ TheDist'.min = cache[KeyOf(TheBody')].data.mins
                /\ cache' = cache
          /\ \A b \in QuoteBodies("P1") :
                (Arrives(b) /\ KeyOf(b) \in DOMAIN cache
                    /\ Age(KeyOf(b)) > _TTL_MS) =>
                    /\ KeyOf(b) \notin DOMAIN cache'
                    /\ ~CacheHit']_vars

\* the case: a quote is served from an entry exactly 12 hours old
C20_ServedAtTwelveHours ==
    /\ CacheHit
    /\ Age(KeyOf(TheBody)) = _TTL_MS
    /\ lastResp.calls = 0

----------------------------------------------------------------------------
\* the status and the body of the response, as the client sees them
Seen(resp) ==
    IF resp.route = "quote"
    THEN [status |-> resp.status, body |-> [ok |-> resp.ok, error |-> resp.error]]
    ELSE [status |-> resp.status, body |-> Get(resp.body)]

\* what a server whose secret is secret answers to the request of resp when
\* the request's key does not match: the refusal of the middleware on a
\* protected route, the JSON of the handler on an open one
SeenOn(secret, resp) ==
    IF resp.route = "quote"
    THEN LET auth == AuthOf(variant, secret, resp.req.hdr)
         IN  [status |-> IF auth = "500" THEN 500 ELSE 401,
              body |-> [ok |-> FALSE, error |-> AuthError(auth)]]
    ELSE [status |-> 200,
          body |-> OpenBody(variant, secret, resp.route, resp.req.hdr)]

\* the request of the response carries a key that matches neither secret
MatchesNeither(resp, s1, s2) ==
    /\ s1 # s2
    /\ ~Presents(resp.req.hdr, s1)
    /\ ~Presents(resp.req.hdr, s2)

(* C21: in the drafts with a key check, the response to a request whose    *)
(* key matches neither of two secrets is the same, status and body, on the *)
(* server configured with the one secret and on a server that differs only *)
(* in being configured with the other; on the open routes as well.         *)
C21_SameOnBothServers ==
    (lastResp # NoResp /\ lastResp.route \in {"quote", "ping", "diag"}
        /\ variant \in AuthVariants) =>
        \A s2 \in Secrets :
            MatchesNeither(lastResp, serverKey, s2) =>
                /\ Seen(lastResp) = SeenOn(serverKey, lastResp)
                /\ Seen(lastResp) = SeenOn(s2, lastResp)

\* the case: P3's diag route answers a wrong key with the length, the head
\* and the tail of the secret
C21_DiagShowsSecret ==
    /\ variant = "P3"
    /\ lastResp # NoResp /\ lastResp.route = "diag"
    /\ MatchesNeither(lastResp, serverKey, OtherKey)
    /\ getClientKey(lastResp.req.hdr) = WrongKey
    /\ ~Get(lastResp.body).match
    /\ Get(lastResp.body).serverFp.len = Len(serverKey)
    /\ Get(lastResp.body).serverFp.head = SliceHead(serverKey, 4)
    /\ Get(lastResp.body).serverFp.tail = SliceTail(serverKey, 4)

====
